---- MODULE Spec2Model ----
(***************************************************************************)
(* png2xsp: conversion of an indexed sprite sheet into XSP pattern (PCG),  *)
(* composition (FRM), reference (REF) and palette (PAL) data.              *)
(*                                                                         *)
(* The model follows main.c (main, chop_sprite, claim) and records.c (the  *)
(* record_* functions and the big-endian setters).  The pixel buffer is a  *)
(* function from the linear index x + y*iw to the palette index; indices   *)
(* outside its domain are transparent (0) and stay so.                     *)
(***************************************************************************)
EXTENDS Integers, Sequences, FiniteSets, TLC

\* ------------------------------------------------------------ constants

PCG_TILE_PX == 16
PCG_PT_MAX_COUNT == 32768
PCG_REF_MAX_COUNT == 32768 \div 8
PCG_FRM_MAX_COUNT == 32768
\* sizeof(XSBHeader): 4 + 16 uint16_t fields, then 3 uint32_t fields.
XSBHeaderSize == 52

CONV_MODE_XOBJ == "XOBJ"
CONV_MODE_SP == "SP"

\* ------------------------------------------------------------ bounds

\* Largest number of non-transparent pixels of a small sheet.
MaxPixels == 3
\* Frames of the long sheets beyond the reference table's capacity.
ExtraFrames == 2

\* ------------------------------------------------------------ integers

Min(S) == CHOOSE a \in S : \A b \in S : a <= b

MinOf(a, b) == IF a < b THEN a ELSE b

\* Conversion of an int to uint16_t / int16_t (two's complement).
ToUint16(v) == v % 65536

ToInt16(v) == LET m == v % 65536 IN IF m >= 32768 THEN m - 65536 ELSE m

RECURSIVE BitOr(_, _)
BitOr(a, b) ==
    IF a = 0 THEN b
    ELSE IF b = 0 THEN a
    ELSE (IF a % 2 = 1 \/ b % 2 = 1 THEN 1 ELSE 0) + 2 * BitOr(a \div 2, b \div 2)

RECURSIVE BitAnd(_, _)
BitAnd(a, b) ==
    IF a = 0 \/ b = 0 THEN 0
    ELSE (IF a % 2 = 1 /\ b % 2 = 1 THEN 1 ELSE 0) + 2 * BitAnd(a \div 2, b \div 2)

\* ------------------------------------------------------------ records.c

\* buf[0] = (val >> 8) & 0xFF; buf[1] = val & 0xFF, val a uint16_t.
set_uint16be(val) ==
    LET v == ToUint16(val) IN << BitAnd(v \div 256, 255), BitAnd(v, 255) >>

\* The same for an int16_t: >> of a negative value is arithmetic, so the two
\* bytes are those of the two's complement representation.
set_int16be(val) ==
    LET v == ToInt16(val) % 65536 IN << BitAnd(v \div 256, 255), BitAnd(v, 255) >>

\* val is a uint32_t; the two masks keep its 32 bits.
set_uint32be(val) ==
    set_uint16be(BitAnd(val \div 65536, 65535)) \o set_uint16be(BitAnd(val, 65535))

\* Bytes written into a buffer at offset offs (the buffer holds what has been
\* written so far).
WriteAt(dat, offs, bytes) == SubSeq(dat, 1, offs) \o bytes

\* Mutant: a frame of no sprite is given no reference entry.
record_ref_dat_skip_empty(dat, count, sp_count, frm_offs) ==
    IF count >= PCG_REF_MAX_COUNT
    THEN [dat |-> dat, count |-> count, refused |-> TRUE]
    ELSE IF sp_count = 0
    THEN [dat |-> dat, count |-> count, refused |-> FALSE]
    ELSE [dat |-> WriteAt(dat, count * 8,
                          set_uint16be(sp_count) \o set_uint32be(frm_offs)
                              \o set_uint16be(0)),
          count |-> count + 1, refused |-> FALSE]

record_ref_dat(dat, count, sp_count, frm_offs) ==
    IF count >= PCG_REF_MAX_COUNT
    THEN [dat |-> dat, count |-> count, refused |-> TRUE]
    ELSE [dat |-> WriteAt(dat, count * 8,
                          set_uint16be(sp_count) \o set_uint32be(frm_offs)
                              \o set_uint16be(0)),
          count |-> count + 1, refused |-> FALSE]

\* Mutant: the table is taken for full one entry late.
record_frm_dat_late(dat, offs, vx, vy, pt, rv) ==
    IF offs > PCG_FRM_MAX_COUNT
    THEN [dat |-> dat, offs |-> offs, refused |-> TRUE]
    ELSE [dat |-> WriteAt(dat, offs,
                          set_int16be(vx) \o set_int16be(vy) \o set_int16be(pt)
                              \o set_uint16be(rv)),
          offs |-> offs + 8, refused |-> FALSE]

\* Mutant: vx and vy are stored in each other's field.
record_frm_dat_swapped(dat, offs, vx, vy, pt, rv) ==
    IF offs >= PCG_FRM_MAX_COUNT
    THEN [dat |-> dat, offs |-> offs, refused |-> TRUE]
    ELSE [dat |-> WriteAt(dat, offs,
                          set_int16be(vy) \o set_int16be(vx) \o set_int16be(pt)
                              \o set_uint16be(rv)),
          offs |-> offs + 8, refused |-> FALSE]

record_frm_dat(dat, offs, vx, vy, pt, rv) ==
    IF offs >= PCG_FRM_MAX_COUNT
    THEN [dat |-> dat, offs |-> offs, refused |-> TRUE]
    ELSE [dat |-> WriteAt(dat, offs,
                          set_int16be(vx) \o set_int16be(vy) \o set_int16be(pt)
                              \o set_uint16be(rv)),
          offs |-> offs + 8, refused |-> FALSE]

record_pcg_dat(dat, count, src) ==
    IF count >= PCG_PT_MAX_COUNT
    THEN [dat |-> dat, count |-> count]
    ELSE [dat |-> WriteAt(dat, count * 128, src), count |-> count + 1]

record_pal_dat(pal, idx, val) ==
    IF idx >= 16 \/ idx < 0 THEN pal ELSE [pal EXCEPT ![idx] = ToUint16(val)]

\* The i-th stored tile, i counted from 0.
PcgTile(dat, i) == SubSeq(dat, i * 128 + 1, i * 128 + 128)

\* Mutant: the search starts at the second stored tile.
record_find_pcg_dat_from1(dat, count, src) ==
    LET hits == {i \in 1..(count - 1) : PcgTile(dat, i) = src}
    IN  IF hits = {} THEN -1 ELSE Min(hits)

record_find_pcg_dat(dat, count, src) ==
    LET hits == {i \in 0..(count - 1) : PcgTile(dat, i) = src}
    IN  IF hits = {} THEN -1 ELSE Min(hits)

\* ------------------------------------------------------------ main.c: claim

\* imgdat[i]: the palette index of the pixel at linear index i.
Px(imgdat, i) == IF i \in DOMAIN imgdat THEN imgdat[i] ELSE 0

\* The linear indices of the non-transparent pixels of the rectangle of
\* columns sx..sx+sw-1 and rows sy..sy+sh-1 (a column x is below iw, so the
\* pixel at (x, y) is the one at index x + y*iw and no other).
NonZeroIn(imgdat, iw, sx, sy, sw, sh) ==
    {i \in DOMAIN imgdat :
        /\ (i \div iw) \in sy..(sy + sh - 1)
        /\ (i % iw) \in sx..(sx + sw - 1)
        /\ imgdat[i] # 0}

\* Mutant: the scan of the rows keeps the last row found, not the first.
claim_row_last(imgdat, iw, sx, sy, sw, sh) ==
    LET rows == {i \div iw : i \in NonZeroIn(imgdat, iw, sx, sy, sw, sh)}
    IN  IF rows = {} THEN -1 ELSE CHOOSE a \in rows : \A b \in rows : a >= b

\* The first loop nest of claim: the first row y of sy..sy+sh-1 holding a
\* non-transparent pixel in columns sx..sx+sw-1, or -1.
claim_row(imgdat, iw, sx, sy, sw, sh) ==
    LET rows == {i \div iw : i \in NonZeroIn(imgdat, iw, sx, sy, sw, sh)}
    IN  IF rows = {} THEN -1 ELSE Min(rows)

\* Mutant: the columns are scanned down to the bottom of the rectangle.
claim_col_unbanded(imgdat, iw, sx, sy, sw, sh, row) ==
    LET cols == {i % iw : i \in NonZeroIn(imgdat, iw, sx, row, sw, sy + sh - row)}
    IN  IF cols = {} THEN -1 ELSE Min(cols)

\* The second loop nest: the first column x of sx..sx+sw-1 holding a
\* non-transparent pixel in rows row..ylim-1, or -1.
claim_col(imgdat, iw, sx, sy, sw, sh, row) ==
    LET ylim == IF (row + PCG_TILE_PX) < (sy + sh) THEN (row + PCG_TILE_PX)
                ELSE (sy + sh)
        cols == {i % iw : i \in NonZeroIn(imgdat, iw, sx, row, sw, ylim - row)}
    IN  IF cols = {} THEN -1 ELSE Min(cols)

\* claim's result: found is the returned bool; strip is TRUE when the
\* "Unexpectedly empty strip" branch returned it.
claim(imgdat, iw, ih, sx, sy, sw, sh) ==
    LET row == claim_row(imgdat, iw, sx, sy, sw, sh)
    IN  IF row < 0
        THEN [found |-> FALSE, col |-> -1, row |-> row, strip |-> FALSE]
        ELSE LET col == claim_col(imgdat, iw, sx, sy, sw, sh, row)
             IN  IF col < 0
                 THEN [found |-> FALSE, col |-> col, row |-> row, strip |-> TRUE]
                 ELSE [found |-> TRUE, col |-> col, row |-> row, strip |-> FALSE]

\* ------------------------------------------------------------ util: clip_8x8_tile

RECURSIVE ClearPixels(_, _)
ClearPixels(imgdat, S) ==
    IF S = {} THEN imgdat
    ELSE LET i == CHOOSE i \in S : TRUE
         IN  ClearPixels([imgdat EXCEPT ![i] = 0], S \ {i})

\* The pixel of an 8x8 tile at (x, y): transparent outside the clip rectangle,
\* its low four bits inside.
ClipPx(imgdat, iw, x, y, limx, limy) ==
    IF x < limx /\ y < limy THEN Px(imgdat, x + (y * iw)) % 16 ELSE 0

\* The 32 bytes of the 8x8 tile at (cx, cy), two pixels a byte, row by row,
\* and the pixel buffer with the tile's pixels erased.
clip_8x8_tile(imgdat, iw, cx, cy, limx, limy) ==
    [data |-> [k \in 1..32 |->
                  LET y == cy + ((k - 1) \div 4)
                      x == cx + 2 * ((k - 1) % 4)
                  IN  16 * ClipPx(imgdat, iw, x, y, limx, limy)
                         + ClipPx(imgdat, iw, x + 1, y, limx, limy)],
     img |-> ClearPixels(imgdat,
                 {x + (y * iw) : x \in cx..(MinOf(cx + 8, limx) - 1),
                                 y \in cy..(MinOf(cy + 8, limy) - 1)}
                     \cap DOMAIN imgdat)]

\* The four clip_8x8_tile calls of chop_sprite: top-left, bottom-left,
\* top-right, bottom-right.
ClipTile(imgdat, iw, clip_x, clip_y, limx, limy) ==
    LET t0 == clip_8x8_tile(imgdat, iw, clip_x, clip_y, limx, limy)
        t1 == clip_8x8_tile(t0.img, iw, clip_x, clip_y + 8, limx, limy)
        t2 == clip_8x8_tile(t1.img, iw, clip_x + 8, clip_y, limx, limy)
        t3 == clip_8x8_tile(t2.img, iw, clip_x + 8, clip_y + 8, limx, limy)
    IN  [pcg_data |-> t0.data \o t1.data \o t2.data \o t3.data, img |-> t3.img]

\* ------------------------------------------------------------ main.c: main

\* Lines 357-360: the origin defaults to the frame centre and is clamped.
SanitizeOriginX(origin_x, frame_w) ==
    LET o == IF origin_x < 0 THEN frame_w \div 2 ELSE origin_x
    IN  IF o > frame_w THEN frame_w ELSE o

SanitizeOriginY(origin_y, frame_w, frame_h) ==
    LET o == IF origin_y < 0 THEN frame_h \div 2 ELSE origin_y
    IN  IF o > frame_w THEN frame_h ELSE o

\* Mutant: a frame of 16 pixels is taken for a composite frame.
ModeOf_below(frame_w, frame_h) ==
    IF frame_w < PCG_TILE_PX /\ frame_h < PCG_TILE_PX THEN CONV_MODE_SP
    ELSE CONV_MODE_XOBJ

ModeOf(frame_w, frame_h) ==
    IF frame_w <= PCG_TILE_PX /\ frame_h <= PCG_TILE_PX THEN CONV_MODE_SP
    ELSE CONV_MODE_XOBJ

\* Mutant: red in the high bits, then green.
PaletteEntry_rgb(r, g, b) ==
    ToUint16(BitOr(BitOr(BitAnd(g \div 8, 31) * 64, BitAnd(r \div 8, 31) * 2048),
                   BitAnd(b \div 8, 31) * 2))

\* Conversion of one RGB palette entry to X68000 RGB555.
PaletteEntry(r, g, b) ==
    ToUint16(BitOr(BitOr(BitAnd(r \div 8, 31) * 64, BitAnd(g \div 8, 31) * 2048),
                   BitAnd(b \div 8, 31) * 2))

\* ------------------------------------------------------------ records.c: record_complete

PalBytes(pal) == [k \in 1..32 |-> set_uint16be(pal[(k - 1) \div 2])[((k - 1) % 2) + 1]]

\* Mutant: the composition offset counts the reference entries, not their bytes.
XSBHeaderBytes_count(mode, ref_count, frm_bytes, pcg_count, pal) ==
    LET ref_offs == XSBHeaderSize
        frm_offs_ == ref_offs + ref_count
        pcg_offs == frm_offs_ + frm_bytes
    IN  set_uint16be(IF mode = CONV_MODE_XOBJ THEN 0 ELSE 1)
            \o set_uint16be(ref_count)
            \o set_uint16be(frm_bytes)
            \o set_uint16be(pcg_count)
            \o PalBytes(pal)
            \o set_uint32be(ref_offs)
            \o set_uint32be(frm_offs_)
            \o set_uint32be(pcg_offs)

\* The XSBHeader record_complete fills, as the bytes fwrite puts in the file.
XSBHeaderBytes(mode, ref_count, frm_bytes, pcg_count, pal) ==
    LET ref_offs == XSBHeaderSize
        frm_offs_ == ref_offs + 8 * ref_count
        pcg_offs == frm_offs_ + frm_bytes
    IN  set_uint16be(IF mode = CONV_MODE_XOBJ THEN 0 ELSE 1)
            \o set_uint16be(ref_count)
            \o set_uint16be(frm_bytes)
            \o set_uint16be(pcg_count)
            \o PalBytes(pal)
            \o set_uint32be(ref_offs)
            \o set_uint32be(frm_offs_)
            \o set_uint32be(pcg_offs)

\* The files record_complete writes when every fopen succeeds, in order.
OutputFiles(param, ref_dat, ref_count, frm_dat, frm_offs_, pcg_dat, pcg_count, pal) ==
    LET ref_bytes == SubSeq(ref_dat, 1, 8 * ref_count)
        frm_bytes == SubSeq(frm_dat, 1, frm_offs_)
        pcg_bytes == SubSeq(pcg_dat, 1, 128 * pcg_count)
    IN  IF param.bundle
        THEN << [name |-> "xsb",
                 bytes |-> XSBHeaderBytes(param.mode, ref_count, frm_offs_,
                                          pcg_count, pal)
                           \o (IF param.mode = CONV_MODE_XOBJ
                               THEN ref_bytes \o frm_bytes ELSE << >>)
                           \o pcg_bytes] >>
        ELSE << [name |-> IF param.mode = CONV_MODE_XOBJ THEN "xsp" ELSE "sp",
                 bytes |-> pcg_bytes],
                [name |-> "pal", bytes |-> PalBytes(pal)] >>
             \o (IF param.mode = CONV_MODE_XOBJ
                 THEN << [name |-> "ref", bytes |-> ref_bytes],
                         [name |-> "frm", bytes |-> frm_bytes] >>
                 ELSE << >>)

\* ------------------------------------------------------------ state

VARIABLES
    pc,           \* where main stands
    opt,          \* the parsed options: frame_w, frame_h, origin_x, origin_y, bundle
    png,          \* the decoded image: w, h, palette
    imgdat,       \* its pixels
    origin_x, origin_y, mode,    \* main's locals after the sanity checks
    x, y,                        \* main's frame loop
    sp_count, frm_offs, last_vx, last_vy,    \* chop_sprite's locals
    s_param, s_ref_dat, s_ref_count, s_frm_dat, s_frm_offs,
    s_pcg_dat, s_pcg_count, s_pal_dat,       \* records.c
    files,        \* the files written
    diag,         \* the diagnostics printed
    frame_log,    \* history: the sprites handed to record_frm_dat this frame
    refused,      \* history: the tables that turned a record away
    n_abort       \* history: the frames chop_sprite left by its early return

vars == << pc, opt, png, imgdat, origin_x, origin_y, mode, x, y, sp_count,
           frm_offs, last_vx, last_vy, s_param, s_ref_dat, s_ref_count,
           s_frm_dat, s_frm_offs, s_pcg_dat, s_pcg_count, s_pal_dat, files,
           diag, frame_log, refused, n_abort >>

sprite_rows == png.h \div opt.frame_h
sprite_columns == png.w \div opt.frame_w

\* ------------------------------------------------------------ inputs

PixelValues == {1, 2}

DefaultPalette == [i \in 0..15 |-> << (i * 17) % 256, (i * 40 + 7) % 256, 255 - i * 3 >>]

\* The pixel buffers with at most MaxPixels non-transparent pixels, all among
\* the candidate indices.
Images(candidates, values) ==
    UNION {[S -> values] :
              S \in {T \in SUBSET candidates : Cardinality(T) <= MaxPixels}}

Input(pw, ph, fw, fh, ox, oy, bundle, palette, img) ==
    [opt |-> [frame_w |-> fw, frame_h |-> fh, origin_x |-> ox, origin_y |-> oy,
              bundle |-> bundle],
     png |-> [w |-> pw, h |-> ph, palette |-> palette],
     imgdat |-> img]

\* A 40x37 sheet of four 20x18 frames (the last row of pixels is left over).
\* Candidates: in frame (0,0) the pixels (2,0), (0,3), (18,0), (2,17); in
\* frame (1,0) the pixel (22,0); in frame (1,1) the pixel (22,18).
SmallSheets ==
    {Input(40, 37, 20, 18, -1, -1, b, DefaultPalette, img) :
        b \in BOOLEAN,
        img \in Images({2, 120, 18, 682, 22, 742}, PixelValues)}

\* The same sheet under every kind of origin option, and a 17x24 sheet of one
\* frame, taller than wide.
OriginSheets ==
    {Input(40, 37, 20, 18, ox, oy, b, DefaultPalette, (2 :> 1) @@ (18 :> 1) @@ (742 :> 2)) :
        b \in BOOLEAN, ox \in {-1, 0, 7, 20, 30, 65535}, oy \in {-1, 0, 5, 18, 19, 65535}}
    \cup
    {Input(17, 24, 17, 24, -1, oy, TRUE, DefaultPalette, (0 :> 1) @@ (407 :> 1)) :
        oy \in {-1, 0, 17, 20, 24, 65535}}

\* Options main turns away: a frame size of 0, a frame larger than the image.
RejectedSheets ==
    {Input(40, 37, fw, 18, -1, -1, TRUE, DefaultPalette, (2 :> 1)) : fw \in {0, 50}}

\* A 32x16 sheet of two 16x16 frames: single-tile (SP) mode.
TileSheets ==
    {Input(32, 16, 16, 16, -1, -1, b, DefaultPalette, img) :
        b \in BOOLEAN, img \in Images({0, 165, 16, 181}, PixelValues)}

Colours == { <<0, 0, 0>>, <<255, 255, 255>>, <<8, 16, 128>>, <<7, 248, 100>> }

\* One sheet under palettes that differ in one entry.
PaletteSheets ==
    {Input(40, 37, 20, 18, -1, -1, TRUE,
           [i \in 0..15 |-> IF i = k THEN c1 ELSE c0], (2 :> 1)) :
        k \in 0..15, c0 \in Colours, c1 \in Colours}

\* A sheet of two frames 40000 pixels wide and one pixel high.
WideSheets ==
    {Input(40000, 2, 40000, 1, ox, -1, TRUE, DefaultPalette, img) :
        ox \in {-1, 0, 65535},
        img \in Images({0, 39000, 79000}, {1})}

\* The state main starts in on an input.
StartState(i) ==
    [pc |-> "start", opt |-> i.opt, png |-> i.png, imgdat |-> i.imgdat,
     origin_x |-> -1, origin_y |-> -1, mode |-> CONV_MODE_XOBJ, x |-> 0, y |-> 0,
     sp_count |-> 0, frm_offs |-> 0, last_vx |-> 0, last_vy |-> 0,
     s_param |-> [mode |-> CONV_MODE_XOBJ, bundle |-> FALSE],
     s_ref_dat |-> << >>, s_ref_count |-> 0, s_frm_dat |-> << >>, s_frm_offs |-> 0,
     s_pcg_dat |-> << >>, s_pcg_count |-> 0, s_pal_dat |-> [k \in 0..15 |-> 0],
     files |-> << >>, diag |-> << >>, frame_log |-> << >>, refused |-> {},
     n_abort |-> 0]

\* Long sheets of 33x1 frames, one frame a row (origin (16, 0) by default).
\*
\* RefSheet: ExtraFrames more frames than the reference table holds, all
\* transparent but for one pixel in the last frame.
RefSheetHeight == PCG_REF_MAX_COUNT + ExtraFrames

RefSheet(bundle) ==
    Input(33, RefSheetHeight, 33, 1, -1, -1, bundle, DefaultPalette,
          (33 * (RefSheetHeight - 1)) :> 1)

\* The state of main between two frames once the first n frames of RefSheet
\* are chopped: n reference entries of no sprite at offset 0.
RefSheetAfter(n, bundle) ==
    [StartState(RefSheet(bundle)) EXCEPT
        !.pc = "frame", !.origin_x = 16, !.origin_y = 0, !.y = n,
        !.s_param = [mode |-> CONV_MODE_XOBJ, bundle |-> bundle],
        !.s_ref_dat = [k \in 1..(8 * n) |-> 0], !.s_ref_count = n]

\* FrmSheet: frames holding the same tile twice, at columns 0 and 16, two more
\* of them than fill the composition table, then a frame of one other tile
\* and ExtraFrames transparent frames.
FrmSheetFull == PCG_FRM_MAX_COUNT \div 16
FrmSheetHeight == FrmSheetFull + 3 + ExtraFrames

FrmSheetPixels(from) ==
    [i \in {33 * r + c : r \in from..(FrmSheetFull + 1), c \in {0, 16}}
            \cup {33 * (FrmSheetFull + 2)}
        |-> IF i = 33 * (FrmSheetFull + 2) THEN 2 ELSE 1]

FrmSheet(bundle) ==
    Input(33, FrmSheetHeight, 33, 1, -1, -1, bundle, DefaultPalette, FrmSheetPixels(0))

\* The composition entries of one of its two-tile frames: the placements
\* (-8, 8) and (8, 8), pattern 0.
FrmSheetEntries ==
    record_frm_dat(record_frm_dat(<< >>, 0, -8, 8, 0, 0).dat, 8, 16, 0, 0, 0).dat

\* Its one tile: the pixel of value 1 at the tile's top left.
FrmSheetTile == [k \in 1..128 |-> IF k = 1 THEN 16 ELSE 0]

\* The state of main between two frames once the first n > 0 frames of
\* FrmSheet are chopped (n at most FrmSheetFull).
FrmSheetAfter(n, bundle) ==
    [StartState(FrmSheet(bundle)) EXCEPT
        !.pc = "frame", !.origin_x = 16, !.origin_y = 0, !.y = n,
        !.imgdat = FrmSheetPixels(n),
        !.sp_count = 2, !.frm_offs = 16 * (n - 1), !.last_vx = 8, !.last_vy = 8,
        !.s_param = [mode |-> CONV_MODE_XOBJ, bundle |-> bundle],
        !.s_ref_dat = [k \in 1..(8 * n) |->
                          record_ref_dat(<< >>, 0, 2, 16 * ((k - 1) \div 8)).dat[((k - 1) % 8) + 1]],
        !.s_ref_count = n,
        !.s_frm_dat = [k \in 1..(16 * n) |-> FrmSheetEntries[((k - 1) % 16) + 1]],
        !.s_frm_offs = 16 * n,
        !.s_pcg_dat = FrmSheetTile,
        !.s_pcg_count = 1,
        !.frame_log = << [col |-> 0, row |-> n - 1, tile |-> FrmSheetTile, pt |-> 0,
                          reused |-> n > 1, stored |-> TRUE],
                         [col |-> 16, row |-> n - 1, tile |-> FrmSheetTile, pt |-> 0,
                          reused |-> TRUE, stored |-> TRUE] >>]

InitFrom(states) ==
    \E s \in states :
        /\ pc = s.pc /\ opt = s.opt /\ png = s.png /\ imgdat = s.imgdat
        /\ origin_x = s.origin_x /\ origin_y = s.origin_y /\ mode = s.mode
        /\ x = s.x /\ y = s.y
        /\ sp_count = s.sp_count /\ frm_offs = s.frm_offs
        /\ last_vx = s.last_vx /\ last_vy = s.last_vy
        /\ s_param = s.s_param
        /\ s_ref_dat = s.s_ref_dat /\ s_ref_count = s.s_ref_count
        /\ s_frm_dat = s.s_frm_dat /\ s_frm_offs = s.s_frm_offs
        /\ s_pcg_dat = s.s_pcg_dat /\ s_pcg_count = s.s_pcg_count
        /\ s_pal_dat = s.s_pal_dat
        /\ files = s.files /\ diag = s.diag
        /\ frame_log = s.frame_log /\ refused = s.refused /\ n_abort = s.n_abort

InitOf(inputs) == InitFrom({StartState(i) : i \in inputs})

Init == InitOf(SmallSheets \cup OriginSheets \cup RejectedSheets \cup TileSheets
                 \cup PaletteSheets \cup WideSheets)

\* The long sheets from the start of main.
InitLongFromStart == InitOf({RefSheet(b) : b \in BOOLEAN} \cup {FrmSheet(b) : b \in BOOLEAN})

\* The long sheets one frame before a table fills; with them, from the start,
\* the sheets of the origin options and the single-tile sheets.
LongStates ==
    {RefSheetAfter(PCG_REF_MAX_COUNT - 1, b) : b \in BOOLEAN}
        \cup {FrmSheetAfter(FrmSheetFull - 1, b) : b \in BOOLEAN}

InitLong == InitFrom(LongStates \cup {StartState(i) : i \in OriginSheets \cup TileSheets})

\* ------------------------------------------------------------ actions

chop_vars == << sp_count, frm_offs, last_vx, last_vy >>
record_vars == << s_ref_dat, s_ref_count, s_frm_dat, s_frm_offs, s_pcg_dat,
                  s_pcg_count >>
input_vars == << opt, png >>

\* main up to the frame loop: the sanity checks of the options, the origin,
\* the mode, the frame size against the image, record_init.
MainStart ==
    /\ pc = "start"
    /\ UNCHANGED << input_vars, imgdat, x, y, chop_vars, record_vars, s_pal_dat,
                    files, frame_log, refused, n_abort >>
    /\ IF opt.frame_w <= 0 \/ opt.frame_h <= 0
       THEN /\ pc' = "done"
            /\ diag' = Append(diag, "Frame width and height parameters must be >= 0")
            /\ UNCHANGED << origin_x, origin_y, mode, s_param >>
       ELSE /\ origin_x' = SanitizeOriginX(opt.origin_x, opt.frame_w)
            /\ origin_y' = SanitizeOriginY(opt.origin_y, opt.frame_w, opt.frame_h)
            /\ mode' = ModeOf(opt.frame_w, opt.frame_h)
            /\ IF opt.frame_w > png.w \/ opt.frame_h > png.h
               THEN /\ pc' = "done"
                    /\ diag' = Append(diag, "Frame size exceed source image")
                    /\ UNCHANGED s_param
               ELSE \E malloc_ok \in BOOLEAN :
                       /\ s_param' = [mode |-> mode', bundle |-> opt.bundle]
                       /\ pc' = IF malloc_ok THEN "frame" ELSE "done"
                       /\ diag' = IF malloc_ok THEN diag
                                  ELSE Append(diag, "Couldn't allocate data buffer.")

\* The step of main's loops to the next frame.
NextFrame ==
    IF x + 1 < sprite_columns THEN x' = x + 1 /\ y' = y
    ELSE x' = 0 /\ y' = y + 1

\* chop_sprite is entered for frame (x, y).
ChopEnter ==
    /\ pc = "frame"
    /\ y < sprite_rows
    /\ pc' = "loop"
    /\ sp_count' = 0
    /\ frm_offs' = s_frm_offs
    /\ last_vx' = 0
    /\ last_vy' = 0
    /\ frame_log' = << >>
    /\ UNCHANGED << input_vars, imgdat, origin_x, origin_y, mode, x, y, s_param,
                    record_vars, s_pal_dat, files, diag, refused, n_abort >>

\* The argument rectangle of chop_sprite for frame (x, y).
sx == x * opt.frame_w
sy == y * opt.frame_h
sw == opt.frame_w
sh == opt.frame_h

Claimed == claim(imgdat, png.w, png.h, sx, sy, sw, sh)

\* One turn of chop_sprite's while loop: claim found a sprite.
ChopStep ==
    /\ pc = "loop"
    /\ LET c == Claimed IN
       /\ c.found
       /\ LET clip == ClipTile(imgdat, png.w, c.col, c.row, sx + sw, sy + sh)
              found_idx == IF mode = CONV_MODE_XOBJ
                           THEN record_find_pcg_dat(s_pcg_dat, s_pcg_count, clip.pcg_data)
                           ELSE -1
              pt_idx == IF found_idx < 0 THEN s_pcg_count ELSE found_idx
              pcg == IF found_idx < 0
                     THEN record_pcg_dat(s_pcg_dat, s_pcg_count, clip.pcg_data)
                     ELSE [dat |-> s_pcg_dat, count |-> s_pcg_count]
              vx == (c.col % sw) - (origin_x - (PCG_TILE_PX \div 2))
              vy == (c.row % sh) - (origin_y - (PCG_TILE_PX \div 2))
              frm == record_frm_dat(s_frm_dat, s_frm_offs, ToInt16(vx - last_vx),
                                    ToInt16(vy - last_vy), ToInt16(pt_idx), 0)
          IN
          /\ sp_count' = ToUint16(sp_count + 1)
          /\ imgdat' = clip.img
          /\ UNCHANGED << input_vars, origin_x, origin_y, mode, frm_offs, s_param,
                          s_ref_dat, s_ref_count, s_pal_dat, files >>
          /\ IF found_idx < 0 /\ pt_idx >= PCG_PT_MAX_COUNT
             THEN \* "PCG area is full!": chop_sprite returns.
                  /\ diag' = Append(diag, "PCG area is full! Cannot record any more tiles.")
                  /\ refused' = refused \cup {"pcg"}
                  /\ n_abort' = n_abort + 1
                  /\ pc' = "frame"
                  /\ NextFrame
                  /\ UNCHANGED << last_vx, last_vy, s_frm_dat, s_frm_offs, s_pcg_dat,
                                  s_pcg_count, frame_log >>
             ELSE /\ s_pcg_dat' = pcg.dat
                  /\ s_pcg_count' = pcg.count
                  /\ pc' = "loop"
                  /\ UNCHANGED << x, y, diag, n_abort >>
                  /\ IF mode # CONV_MODE_XOBJ
                     THEN UNCHANGED << last_vx, last_vy, s_frm_dat, s_frm_offs,
                                       frame_log, refused >>
                     ELSE /\ s_frm_dat' = frm.dat
                          /\ s_frm_offs' = frm.offs
                          /\ last_vx' = vx
                          /\ last_vy' = vy
                          /\ frame_log' = Append(frame_log,
                                 [col |-> c.col, row |-> c.row, tile |-> clip.pcg_data,
                                  pt |-> pt_idx, reused |-> found_idx >= 0,
                                  stored |-> ~frm.refused])
                          /\ refused' = IF frm.refused THEN refused \cup {"frm"}
                                        ELSE refused

\* claim found nothing: the loop ends, the reference entry is recorded (XOBJ)
\* and chop_sprite returns.
ChopExit ==
    /\ pc = "loop"
    /\ LET c == Claimed
           ref == record_ref_dat(s_ref_dat, s_ref_count, sp_count, frm_offs)
       IN
       /\ ~c.found
       /\ diag' = IF c.strip THEN Append(diag, "Unexpectedly empty strip") ELSE diag
       /\ IF mode # CONV_MODE_XOBJ
          THEN UNCHANGED << s_ref_dat, s_ref_count, refused >>
          ELSE /\ s_ref_dat' = ref.dat
               /\ s_ref_count' = ref.count
               /\ refused' = IF ref.refused THEN refused \cup {"ref"} ELSE refused
    /\ pc' = "frame"
    /\ NextFrame
    /\ UNCHANGED << input_vars, imgdat, origin_x, origin_y, mode, chop_vars, s_param,
                    s_frm_dat, s_frm_offs, s_pcg_dat, s_pcg_count, s_pal_dat, files,
                    frame_log, n_abort >>

\* The palette loop of main once every frame is chopped.
RECURSIVE ExtractPaletteFrom(_, _, _)
ExtractPaletteFrom(pal, palette, i) ==
    IF i >= 16 THEN pal
    ELSE ExtractPaletteFrom(
             record_pal_dat(pal, i,
                 PaletteEntry(palette[i][1], palette[i][2], palette[i][3])),
             palette, i + 1)

ExtractPalette ==
    /\ pc = "frame"
    /\ y >= sprite_rows
    /\ s_pal_dat' = ExtractPaletteFrom(record_pal_dat(s_pal_dat, 0, 0), png.palette, 1)
    /\ pc' = "complete"
    /\ UNCHANGED << input_vars, imgdat, origin_x, origin_y, mode, x, y, chop_vars,
                    s_param, record_vars, files, diag, frame_log, refused, n_abort >>

\* record_complete: the files are written in order until an fopen fails.
RecordComplete ==
    /\ pc = "complete"
    /\ LET out == OutputFiles(s_param, s_ref_dat, s_ref_count, s_frm_dat, s_frm_offs,
                              s_pcg_dat, s_pcg_count, s_pal_dat)
       IN  \E n \in 0..Len(out) :
              /\ files' = SubSeq(out, 1, n)
              /\ diag' = IF n < Len(out)
                         THEN Append(diag, "Couldn't open file for writing.")
                         ELSE diag
    /\ pc' = "done"
    /\ UNCHANGED << input_vars, imgdat, origin_x, origin_y, mode, x, y, chop_vars,
                    s_param, record_vars, s_pal_dat, frame_log, refused, n_abort >>

Next ==
    \/ MainStart
    \/ ChopEnter
    \/ ChopStep
    \/ ChopExit
    \/ ExtractPalette
    \/ RecordComplete

Spec == Init /\ [][Next]_vars

SpecLong == InitLong /\ [][Next]_vars

\* The long sheets chopped from the start: the states of LongStates are the
\* states they pass through (the pixel buffers compared by their pixels).
SpecLongFromStart == InitLongFromStart /\ [][Next]_vars

SamePixels(a, b) == \A i \in (DOMAIN a) \cup (DOMAIN b) : Px(a, i) = Px(b, i)

StateIs(s) ==
    /\ SamePixels(imgdat, s.imgdat)
    /\ [s EXCEPT !.imgdat = imgdat]
         = [pc |-> pc, opt |-> opt, png |-> png, imgdat |-> imgdat,
            origin_x |-> origin_x, origin_y |-> origin_y, mode |-> mode,
            x |-> x, y |-> y, sp_count |-> sp_count, frm_offs |-> frm_offs,
            last_vx |-> last_vx, last_vy |-> last_vy, s_param |-> s_param,
            s_ref_dat |-> s_ref_dat, s_ref_count |-> s_ref_count,
            s_frm_dat |-> s_frm_dat, s_frm_offs |-> s_frm_offs,
            s_pcg_dat |-> s_pcg_dat, s_pcg_count |-> s_pcg_count,
            s_pal_dat |-> s_pal_dat, files |-> files, diag |-> diag,
            frame_log |-> frame_log, refused |-> refused, n_abort |-> n_abort]

LongStatesReached ==
    /\ (pc = "frame" /\ png.h = RefSheetHeight /\ y = PCG_REF_MAX_COUNT - 1)
           => StateIs(RefSheetAfter(PCG_REF_MAX_COUNT - 1, opt.bundle))
    /\ (pc = "frame" /\ png.h = FrmSheetHeight /\ y = FrmSheetFull - 1)
           => StateIs(FrmSheetAfter(FrmSheetFull - 1, opt.bundle))

\* ------------------------------------------------------------ reading the output

\* The big-endian fields at byte offset off (from 0) of a buffer.
U16(dat, off) == dat[off + 1] * 256 + dat[off + 2]
S16(dat, off) == LET u == U16(dat, off) IN IF u >= 32768 THEN u - 65536 ELSE u
U32(dat, off) == U16(dat, off) * 65536 + U16(dat, off + 2)

\* The number of frames of the sheet.
Frames == sprite_rows * sprite_columns

\* main is past its frame loop.
AllChopped ==
    /\ pc \in {"frame", "complete", "done"}
    /\ opt.frame_w > 0 /\ opt.frame_h > 0
    /\ y >= sprite_rows

\* ------------------------------------------------------------ C1

\* C1 as stated: in composite mode, once every frame is processed, the
\* reference table holds as many entries as the sheet has frames.
C1_RefPerFrame ==
    (AllChopped /\ mode = CONV_MODE_XOBJ) => s_ref_count = Frames

\* C1 amended: in composite mode, once every frame is processed, the number of
\* reference entries is the number of frames chop_sprite did not leave by its
\* early return, or the table's capacity of 4096 entries if that is less.
C1_RefCountCapped ==
    (AllChopped /\ mode = CONV_MODE_XOBJ)
        => s_ref_count = MinOf(PCG_REF_MAX_COUNT, Frames - n_abort)

\* A sheet of four frames is chopped and has its four entries, one of them of
\* a frame without sprites.
C1_Witness ==
    /\ AllChopped /\ mode = CONV_MODE_XOBJ
    /\ Frames = 4 /\ s_ref_count = 4
    /\ \E k \in 0..3 : U16(s_ref_dat, 8 * k) = 0
    /\ \E k \in 0..3 : U16(s_ref_dat, 8 * k) > 0

\* ------------------------------------------------------------ C2

\* C2: in composite mode no two stored tiles are equal, and every sprite of
\* the frame being chopped carries the index of the first stored tile equal
\* to its own (in the composition entry too, when the entry was stored).
C2_Dedup ==
    mode = CONV_MODE_XOBJ =>
        /\ \A i, j \in 0..(s_pcg_count - 1) :
              i < j => PcgTile(s_pcg_dat, i) # PcgTile(s_pcg_dat, j)
        /\ \A k \in 1..Len(frame_log) :
              LET e == frame_log[k]
                  same == {i \in 0..(s_pcg_count - 1) : PcgTile(s_pcg_dat, i) = e.tile}
              IN  /\ same # {}
                  /\ e.pt = Min(same)
                  /\ e.stored => S16(s_frm_dat, frm_offs + 8 * (k - 1) + 4) = e.pt

\* A sprite of the frame reuses a tile stored earlier, behind another tile.
C2_Witness ==
    /\ mode = CONV_MODE_XOBJ
    /\ s_pcg_count >= 2
    /\ \E k \in 1..Len(frame_log) :
          frame_log[k].reused /\ frame_log[k].stored /\ frame_log[k].pt = 0

\* ------------------------------------------------------------ C3

\* The absolute placement of a sprite as C3 gives it.
PlacementX(e) == (e.col % opt.frame_w) - (origin_x - 8)
PlacementY(e) == (e.row % opt.frame_h) - (origin_y - 8)

\* The sums of the dx and dy fields of the first k composition entries of the
\* frame being chopped.
RECURSIVE SumDx(_)
SumDx(k) == IF k = 0 THEN 0 ELSE SumDx(k - 1) + S16(s_frm_dat, frm_offs + 8 * (k - 1))
RECURSIVE SumDy(_)
SumDy(k) == IF k = 0 THEN 0 ELSE SumDy(k - 1) + S16(s_frm_dat, frm_offs + 8 * (k - 1) + 2)

StoredEntries == {k \in 1..Len(frame_log) : frame_log[k].stored}

\* C3 as stated: the sums of the stored deltas are the placements.
C3_DeltaRoundTrip ==
    \A k \in StoredEntries :
        /\ SumDx(k) = PlacementX(frame_log[k])
        /\ SumDy(k) = PlacementY(frame_log[k])

\* C3 amended: the sums of the stored deltas are the placements modulo 2^16
\* (as 16-bit signed values), and the placements themselves when the frame is
\* at most 32760 pixels wide and high.
C3_DeltaRoundTripInt16 ==
    \A k \in StoredEntries :
        /\ ToInt16(SumDx(k)) = ToInt16(PlacementX(frame_log[k]))
        /\ ToInt16(SumDy(k)) = ToInt16(PlacementY(frame_log[k]))
        /\ (opt.frame_w <= 32760 /\ opt.frame_h <= 32760)
              => /\ SumDx(k) = PlacementX(frame_log[k])
                 /\ SumDy(k) = PlacementY(frame_log[k])

\* A frame has two stored entries, the second away from the first, and the
\* sum of the deltas differs from the placement by a multiple of 2^16.
C3_Witness ==
    /\ Len(frame_log) = 2 /\ StoredEntries = {1, 2}
    /\ S16(s_frm_dat, frm_offs + 8) # 0
    /\ SumDx(2) # PlacementX(frame_log[2])

\* ------------------------------------------------------------ C4

BundleFiles == {k \in 1..Len(files) : files[k].name = "xsb"}

\* C4: in a bundle the reference offset is the header size, the composition
\* offset is it plus 8 bytes a reference entry, the tile offset is that plus
\* the composition length; the 16-bit fields hold the counts; the three
\* sections follow the header with these lengths, in this order.
C4_BundleLayout ==
    \A k \in BundleFiles :
        LET b == files[k].bytes
            ref_count == U16(b, 2)
            frm_bytes == U16(b, 4)
            pcg_count == U16(b, 6)
            ref_offs == U32(b, 40)
            frm_offs_ == U32(b, 44)
            pcg_offs == U32(b, 48)
        IN  /\ ref_offs = XSBHeaderSize
            /\ frm_offs_ = ref_offs + 8 * ref_count
            /\ pcg_offs = frm_offs_ + frm_bytes
            /\ ref_count = s_ref_count
            /\ frm_bytes = s_frm_offs
            /\ pcg_count = s_pcg_count
            /\ Len(b) = pcg_offs + 128 * pcg_count
            /\ SubSeq(b, ref_offs + 1, frm_offs_) = s_ref_dat
            /\ SubSeq(b, frm_offs_ + 1, pcg_offs) = s_frm_dat
            /\ SubSeq(b, pcg_offs + 1, Len(b)) = s_pcg_dat

\* A bundle of two frames, two composition entries and two tiles is written.
C4_Witness ==
    \E k \in BundleFiles :
        /\ U16(files[k].bytes, 2) >= 2
        /\ U16(files[k].bytes, 4) >= 16
        /\ U16(files[k].bytes, 6) >= 2

\* ------------------------------------------------------------ C5

CapacityDiagnosed ==
    \E k \in 1..Len(diag) : diag[k] = "PCG area is full! Cannot record any more tiles."

\* C5: once a table has turned a record away, a diagnostic has been printed
\* and no step records a tile, a composition entry or a reference entry any
\* more.
C5_StopsWhenFull ==
    [][refused # {} => (CapacityDiagnosed /\ UNCHANGED record_vars)]_vars

\* ------------------------------------------------------------ C6

\* C6, the capacities: at most 32768 tiles, at most 32768 composition bytes
\* in entries of 8, at most 4096 reference entries, and no byte of a table
\* beyond what its count says.
C6_Bounds ==
    /\ s_pcg_count \in 0..PCG_PT_MAX_COUNT
    /\ s_frm_offs \in 0..PCG_FRM_MAX_COUNT
    /\ s_frm_offs % 8 = 0
    /\ s_ref_count \in 0..PCG_REF_MAX_COUNT
    /\ Len(s_pcg_dat) = 128 * s_pcg_count
    /\ Len(s_frm_dat) = s_frm_offs
    /\ Len(s_ref_dat) = 8 * s_ref_count

\* C6, append-only: a step keeps every stored tile at its index.
C6_AppendOnly ==
    /\ s_pcg_count' >= s_pcg_count
    /\ SubSeq(s_pcg_dat', 1, 128 * s_pcg_count) = s_pcg_dat

\* C6: the tables stay within their capacities and the pattern table is
\* append-only.
C6_Capacity == []C6_Bounds /\ [][C6_AppendOnly]_vars

\* The composition table is full and has turned an entry away.
C6_Witness ==
    /\ s_frm_offs = PCG_FRM_MAX_COUNT
    /\ "frm" \in refused

\* ------------------------------------------------------------ C7

\* C7: the palette main hands to record_complete, and the palette bytes of
\* every file written, hold 0 in entry 0 and, in entry i of 1..15, the green
\* of source entry i in bits 15..11, its red in bits 10..6, its blue in bits
\* 5..1 (each without its low three bits) and 0 in bit 0.
C7_Palette ==
    (pc = "complete" \/ files # << >>) =>
        /\ s_pal_dat[0] = 0
        /\ \A i \in 1..15 :
              LET r == png.palette[i][1]
                  g == png.palette[i][2]
                  b == png.palette[i][3]
              IN  s_pal_dat[i] = (g \div 8) * 2048 + (r \div 8) * 64 + (b \div 8) * 2
        /\ \A k \in 1..Len(files) : \A i \in 0..15 :
              /\ files[k].name = "xsb" => U16(files[k].bytes, 8 + 2 * i) = s_pal_dat[i]
              /\ files[k].name = "pal" => U16(files[k].bytes, 2 * i) = s_pal_dat[i]

\* The palette is converted from a source whose entry 0 is not black and in
\* which a later entry has red, green and blue that differ.
C7_Witness ==
    /\ pc = "complete"
    /\ png.palette[0] # <<0, 0, 0>>
    /\ \E i \in 1..15 :
          /\ png.palette[i][1] \div 8 # png.palette[i][2] \div 8
          /\ png.palette[i][2] \div 8 # png.palette[i][3] \div 8
          /\ s_pal_dat[i] # 0

\* ------------------------------------------------------------ C8

\* C8: the reference entry a step appends carries the composition offset of
\* the frame's start and the number of composition entries stored for the
\* frame, which end where the composition table ends.
C8_RefEntry ==
    [][s_ref_count' = s_ref_count + 1 =>
          /\ U32(s_ref_dat', 8 * s_ref_count + 2) = frm_offs
          /\ U16(s_ref_dat', 8 * s_ref_count) = Cardinality(StoredEntries)
          /\ frm_offs + 8 * U16(s_ref_dat', 8 * s_ref_count) = s_frm_offs']_vars

\* ------------------------------------------------------------ C9

\* The non-transparent pixels of an image in the rectangle of frame (x, y).
Occupied(img) ==
    {i \in DOMAIN img :
        /\ img[i] # 0
        /\ (i % png.w) >= sx /\ (i % png.w) < sx + sw
        /\ (i \div png.w) >= sy /\ (i \div png.w) < sy + sh}

\* The pixels a clip at (col, row) covers.
Block(col, row) ==
    {i \in DOMAIN imgdat :
        /\ (i % png.w) >= col /\ (i % png.w) < col + PCG_TILE_PX
        /\ (i \div png.w) >= row /\ (i \div png.w) < row + PCG_TILE_PX}

\* A turn of the loop: a hit's block holds a non-transparent pixel of the
\* frame, the clip clears at least one, no pixel becomes non-transparent, and
\* the loop is left just when the scanner reports none.
C9_Turn ==
    pc = "loop" =>
        /\ \A i \in DOMAIN imgdat' : imgdat'[i] # 0 => Px(imgdat, i) = imgdat'[i]
        /\ Claimed.found =>
              /\ Occupied(imgdat) \cap Block(Claimed.col, Claimed.row) # {}
              /\ Cardinality(Occupied(imgdat')) < Cardinality(Occupied(imgdat))
        /\ (pc' = "frame" /\ n_abort' = n_abort) <=> ~Claimed.found

\* The program keeps running until main returns: weak fairness of Next, with
\* ENABLED <<Next>>_vars written out as pc # "done" (at every other pc one
\* action of Next is enabled and changes pc or the frame counters).
FairSpec == Spec /\ ([]<>(pc = "done") \/ []<><<Next>>_vars)

\* C9: every turn of chop_sprite's loop clears a non-transparent pixel of the
\* frame and sets none, and the loop of every frame ends.
C9_LoopTerminates ==
    /\ [][C9_Turn]_vars
    /\ (pc = "loop") ~> (pc = "frame")

\* The loop has taken three turns on a frame and the scanner reports none.
C9_Witness ==
    /\ pc = "loop"
    /\ sp_count = 3
    /\ ~Claimed.found

\* ------------------------------------------------------------ C10

\* The coordinates of the non-transparent pixels of the rectangle claim is
\* called with.
Hits ==
    {<<i % png.w, i \div png.w>> : i \in Occupied(imgdat)}

\* C10: claim reports none just when the rectangle holds no non-transparent
\* pixel; else its row is the top-most row holding one and its col the
\* left-most column holding one in the 16 rows from it (or down to the bottom
\* of the rectangle); the empty-strip branch is not taken.
C10_Claim ==
    pc = "loop" =>
        LET c == Claimed
            band == {h \in Hits : h[2] >= c.row /\ h[2] < c.row + PCG_TILE_PX
                                    /\ h[2] < sy + sh}
        IN  /\ c.found <=> Hits # {}
            /\ ~c.strip
            /\ c.found =>
                  /\ \E h \in Hits : h[2] = c.row
                  /\ \A h \in Hits : h[2] >= c.row
                  /\ \E h \in band : h[1] = c.col
                  /\ \A h \in band : h[1] >= c.col

\* claim finds a sprite whose corner pixel is transparent and whose column
\* comes from a row below a pixel further right.
C10_Witness ==
    /\ pc = "loop"
    /\ Claimed.found
    /\ <<Claimed.col, Claimed.row>> \notin Hits
    /\ \E h \in Hits : h[2] = Claimed.row /\ h[1] > Claimed.col

\* ------------------------------------------------------------ C11

\* main is past its checks on frames of at most 16 pixels on both axes.
SmallFrames ==
    /\ pc # "start"
    /\ opt.frame_w > 0 /\ opt.frame_h > 0
    /\ opt.frame_w <= PCG_TILE_PX /\ opt.frame_h <= PCG_TILE_PX

\* C11, the tables: with such frames the mode is single-tile, the composition
\* and reference tables stay empty, and the files written hold the tiles and
\* the palette only (a bundle: the header with both counts 0, then the tiles).
C11_NoComposition ==
    SmallFrames =>
        /\ mode = CONV_MODE_SP
        /\ s_frm_offs = 0 /\ s_frm_dat = << >>
        /\ s_ref_count = 0 /\ s_ref_dat = << >>
        /\ \A k \in 1..Len(files) :
              LET f == files[k]
              IN  /\ f.name \in {"xsb", "sp", "pal"}
                  /\ f.name = "sp" => f.bytes = s_pcg_dat
                  /\ f.name = "xsb" =>
                        /\ U16(f.bytes, 2) = 0 /\ U16(f.bytes, 4) = 0
                        /\ U32(f.bytes, 48) = XSBHeaderSize
                        /\ SubSeq(f.bytes, XSBHeaderSize + 1, Len(f.bytes)) = s_pcg_dat

\* C11, the tiles: a turn of the loop on a scanner hit appends the clipped
\* tile to the atlas, whatever the atlas holds (while it holds fewer than
\* 32768 tiles); a step without a hit leaves the atlas alone.
C11_RawTile ==
    SmallFrames =>
        IF pc = "loop" /\ Claimed.found
        THEN s_pcg_count < PCG_PT_MAX_COUNT =>
                /\ s_pcg_count' = s_pcg_count + 1
                /\ s_pcg_dat' = s_pcg_dat \o ClipTile(imgdat, png.w, Claimed.col, Claimed.row,
                                                     sx + sw, sy + sh).pcg_data
        ELSE UNCHANGED << s_pcg_count, s_pcg_dat >>

C12_OriginInFrame ==
    (pc # "start" /\ opt.frame_w > 0 /\ opt.frame_h > 0) =>
        /\ origin_x \in 0..opt.frame_w
        /\ origin_y \in 0..opt.frame_h
        /\ opt.origin_x < 0 => origin_x = opt.frame_w \div 2
        /\ opt.origin_y < 0 => origin_y = opt.frame_h \div 2
        /\ opt.origin_y \in 0..opt.frame_h => origin_y = opt.origin_y
        /\ opt.origin_y > opt.frame_h => origin_y = opt.frame_h

====
